---------------------------- MODULE Spec2Model ----------------------------
(* Room coordinator of the theatre server (socket.io): the Room class,   *)
(* the room registry, the per-connection event handlers and the periodic *)
(* cleanup of empty rooms.                                               *)
EXTENDS Integers, Sequences, FiniteSets, TLC

(* ---------------------------- bounds -------------------------------- *)
NumConns == 2
NumRooms == 2
NumUsers == 2
\* length of Room.seats (160 in the server, scaled down)
NumSeats == 2
\* the rooms 1..SeatRooms are the ones clients send seat requests for
SeatRooms == 1
\* user ids of the specification of host succession, which has no seat requests
NumHostUsers == 3
\* the seat indices 0..ShareSeats-1 are requested in the specification of
\* screen sharing
ShareSeats == 1
\* positions a client may send are 0..MaxPos
MaxPos == 1
\* connections of the specification of racing seat requests
NumRaceConns == 3

Conns   == 1..NumConns
RoomIds == 1..NumRooms
UserIds == 1..NumUsers
SeatRoomIds == 1..SeatRooms
HostUserIds == 1..NumHostUsers
RaceConns == 1..NumRaceConns
\* io.sockets.sockets has an entry for each of these while it is connected
AllConns == Conns \cup RaceConns
ShareSeatInputs == 0..(ShareSeats - 1)
Positions == 0..MaxPos
\* the position a client sends with join-room
SpawnPos == 0
\* seat indices a client may send: one below and one above the range too
SeatInputs == (-1)..NumSeats

\* JavaScript null / undefined
NoRoom == 0
NoUser == 0
NoSeat == -1

VARIABLES
    rooms,      \* the registry: room id -> Room, for the ids in the Map
    sockets,    \* per connection: connected, currentRoom, userId, joined
    emitted,    \* the emits of the last handler, in order
    last        \* the event the last handler processed

vars == <<rooms, sockets, emitted, last>>

(* ---------------------------- Room ---------------------------------- *)
Room ==
    [users |-> <<>>,
     host |-> NoUser,
     seats |-> [i \in 0..(NumSeats - 1) |-> NoUser],
     screenSharing |-> FALSE]

\* users.has(userId)
HasUser(room, userId) ==
    \E i \in 1..Len(room.users) : room.users[i].id = userId

\* users.get(userId).seatIndex, NoSeat when the user is unknown
SeatIndexOf(room, userId) ==
    IF HasUser(room, userId)
    THEN LET i == CHOOSE k \in 1..Len(room.users) : room.users[k].id = userId
         IN  room.users[i].seatIndex
    ELSE NoSeat

\* the ids of users, in insertion order
UserKeys(room) == [i \in 1..Len(room.users) |-> room.users[i].id]

Members(room) == {room.users[i].id : i \in 1..Len(room.users)}

addUserAsHost(room, userId) ==
    [room EXCEPT !.users = IF HasUser(room, userId) THEN @
                           ELSE Append(@, [id |-> userId,
                                           position |-> SpawnPos,
                                           seatIndex |-> NoSeat]),
                 !.host = userId]

\* Map.set: an existing key keeps its position and gets the new value
addUser(room, userId) ==
    LET fresh == [id |-> userId, position |-> SpawnPos, seatIndex |-> NoSeat]
        us == IF HasUser(room, userId)
              THEN [i \in 1..Len(room.users) |->
                       IF room.users[i].id = userId THEN fresh
                       ELSE room.users[i]]
              ELSE Append(room.users, fresh)
    IN  [room EXCEPT !.users = us,
                     !.host = IF Len(us) = 1 THEN userId ELSE @]

LastKey(us) == us[Len(us)].id

\* this.users.keys().next().value
FirstKey(us) == us[1].id

removeUser(room, userId) ==
    LET si == SeatIndexOf(room, userId)
        seats1 == IF HasUser(room, userId) /\ si # NoSeat
                  THEN [room.seats EXCEPT ![si] = NoUser]
                  ELSE room.seats
        us == SelectSeq(room.users, LAMBDA x : x.id # userId)
        host1 == IF room.host = userId /\ Len(us) > 0 THEN FirstKey(us)
                 ELSE IF Len(us) = 0 THEN NoUser
                 ELSE room.host
    IN  [room EXCEPT !.users = us, !.seats = seats1, !.host = host1]

\* Room.updateUserPosition: no effect for an unknown user
updateUserPosition(room, userId, position) ==
    [room EXCEPT !.users =
        [i \in 1..Len(room.users) |->
            IF room.users[i].id = userId
            THEN [room.users[i] EXCEPT !.position = position]
            ELSE room.users[i]]]

SeatTakenNever(room, seatIndex) == FALSE

\* this.seats[seatIndex] !== null
SeatTaken(room, seatIndex) == room.seats[seatIndex] # NoUser

assignSeatMemberFirst(room, userId, seatIndex) ==
    IF seatIndex < 0 \/ seatIndex >= NumSeats
    THEN [success |-> FALSE, reason |-> "Invalid seat index", room |-> room]
    ELSE IF ~HasUser(room, userId)
    THEN [success |-> FALSE, reason |-> "User not found", room |-> room]
    ELSE IF SeatTaken(room, seatIndex)
    THEN [success |-> FALSE, reason |-> "Seat already occupied", room |-> room]
    ELSE LET old == SeatIndexOf(room, userId)
             seats1 == IF old # NoSeat
                       THEN [room.seats EXCEPT ![old] = NoUser]
                       ELSE room.seats
             seats2 == [seats1 EXCEPT ![seatIndex] = userId]
             us == [i \in 1..Len(room.users) |->
                      IF room.users[i].id = userId
                      THEN [room.users[i] EXCEPT !.seatIndex = seatIndex]
                      ELSE room.users[i]]
         IN  [success |-> TRUE, reason |-> "",
              room |-> [room EXCEPT !.users = us, !.seats = seats2]]

\* the result of assignSeat and the room it leaves
assignSeat(room, userId, seatIndex) ==
    IF seatIndex < 0 \/ seatIndex >= NumSeats
    THEN [success |-> FALSE, reason |-> "Invalid seat index", room |-> room]
    ELSE IF SeatTaken(room, seatIndex)
    THEN [success |-> FALSE, reason |-> "Seat already occupied", room |-> room]
    ELSE IF ~HasUser(room, userId)
    THEN [success |-> FALSE, reason |-> "User not found", room |-> room]
    ELSE LET old == SeatIndexOf(room, userId)
             seats1 == IF old # NoSeat
                       THEN [room.seats EXCEPT ![old] = NoUser]
                       ELSE room.seats
             seats2 == [seats1 EXCEPT ![seatIndex] = userId]
             us == [i \in 1..Len(room.users) |->
                      IF room.users[i].id = userId
                      THEN [room.users[i] EXCEPT !.seatIndex = seatIndex]
                      ELSE room.users[i]]
         IN  [success |-> TRUE, reason |-> "",
              room |-> [room EXCEPT !.users = us, !.seats = seats2]]

(* ---------------------------- registry ------------------------------ *)
\* rooms.set(roomId, room)
RoomsSet(rs, roomId, room) ==
    [r \in (DOMAIN rs) \cup {roomId} |-> IF r = roomId THEN room ELSE rs[r]]

\* rooms.delete(roomId)
RoomsDelete(rs, roomId) ==
    [r \in (DOMAIN rs) \ {roomId} |-> rs[r]]

(* ---------------------------- sockets ------------------------------- *)
NewSocket ==
    [connected |-> TRUE, currentRoom |-> NoRoom, userId |-> NoUser,
     joined |-> {}]

Gone ==
    [connected |-> FALSE, currentRoom |-> NoRoom, userId |-> NoUser,
     joined |-> {}]

\* io.to(roomId): the connected sockets that joined roomId
InRoom(ss, roomId) ==
    {d \in AllConns : ss[d].connected /\ roomId \in ss[d].joined}

\* socket.to(roomId): the same without the sender
Others(ss, c, roomId) == InRoom(ss, roomId) \ {c}

Msg(ev, to, user, seat, count, reason) ==
    [ev |-> ev, to |-> to, user |-> user, seat |-> seat, count |-> count,
     reason |-> reason]

\* Room.toJSON: no seats array, the users carry their seatIndex
toJSON(roomId, room) ==
    [id |-> roomId, userCount |-> Len(room.users), host |-> room.host,
     users |-> room.users, screenSharing |-> room.screenSharing]

\* socket.emit('room-joined', {...room.toJSON(), isHost})
RoomJoined(c, roomId, room, userId) ==
    [ev |-> "room-joined", to |-> {c}, user |-> userId, seat |-> NoSeat,
     count |-> Len(room.users), reason |-> "",
     snap |-> toJSON(roomId, room), isHost |-> (room.host = userId)]

\* the event a handler got, and what the socket was bound to when it came:
\* its room, its user id and that room's host
Event(type, c, roomId, userId, seatIndex) ==
    [type |-> type, conn |-> c, roomId |-> roomId, userId |-> userId,
     seatIndex |-> seatIndex,
     prevRoom |-> sockets[c].currentRoom, prevUser |-> sockets[c].userId,
     prevHost |-> IF sockets[c].currentRoom \in DOMAIN rooms
                  THEN rooms[sockets[c].currentRoom].host ELSE NoUser]

NoEvent(type) ==
    [type |-> type, conn |-> 0, roomId |-> NoRoom, userId |-> NoUser,
     seatIndex |-> NoSeat, prevRoom |-> NoRoom, prevUser |-> NoUser,
     prevHost |-> NoUser]

(* ---------------------------- handlers ------------------------------ *)
Init ==
    /\ rooms = << >>
    /\ sockets = [c \in AllConns |-> Gone]
    /\ emitted = << >>
    /\ last = NoEvent("init")

\* io.on('connection')
Connect(c) ==
    /\ ~sockets[c].connected
    /\ sockets' = [sockets EXCEPT ![c] = NewSocket]
    /\ emitted' = << >>
    /\ last' = Event("connection", c, NoRoom, NoUser, NoSeat)
    /\ UNCHANGED rooms

\* socket.on('join-room')
JoinRoom(c, roomId, userId) ==
    /\ sockets[c].connected
    /\ LET cur == sockets[c].currentRoom
           \* get or create room
           rooms1 == IF roomId \in DOMAIN rooms THEN rooms
                     ELSE RoomsSet(rooms, roomId, Room)
           \* leave previous room if any
           leaves == cur # NoRoom
           sock1 == IF leaves
                    THEN [sockets[c] EXCEPT !.joined = @ \ {cur}]
                    ELSE sockets[c]
           ss1 == [sockets EXCEPT ![c] = sock1]
           hasOld == leaves /\ cur \in DOMAIN rooms1
           rooms2 == IF hasOld
                     THEN [rooms1 EXCEPT ![cur] = removeUser(@, userId)]
                     ELSE rooms1
           out1 == IF hasOld
                   THEN << Msg("user-left", Others(ss1, c, cur), userId,
                               NoSeat, 0, ""),
                           Msg("user-count-update", Others(ss1, c, cur),
                               NoUser, NoSeat, Len(rooms2[cur].users), "") >>
                   ELSE << >>
           \* join new room
           sock2 == [sock1 EXCEPT !.joined = @ \cup {roomId},
                                  !.currentRoom = roomId,
                                  !.userId = userId]
           ss2 == [sockets EXCEPT ![c] = sock2]
           rooms3 == [rooms2 EXCEPT ![roomId] = addUser(@, userId)]
           out2 == << RoomJoined(c, roomId, rooms3[roomId], userId),
                      Msg("user-joined", Others(ss2, c, roomId), userId,
                          NoSeat, 0, ""),
                      Msg("user-count-update", Others(ss2, c, roomId),
                          NoUser, NoSeat, Len(rooms3[roomId].users), "") >>
       IN  /\ rooms' = rooms3
           /\ sockets' = ss2
           /\ emitted' = out1 \o out2
    /\ last' = Event("join-room", c, roomId, userId, NoSeat)

\* socket.on('request-seat'); the handler returns at once, with no effect,
\* unless the room exists and the socket has a user id
RequestSeat(c, roomId, seatIndex) ==
    /\ sockets[c].connected
    /\ roomId \in DOMAIN rooms
    /\ sockets[c].userId # NoUser
    /\ LET result == assignSeat(rooms[roomId], sockets[c].userId, seatIndex)
       IN  /\ rooms' = [rooms EXCEPT ![roomId] = result.room]
           /\ emitted' =
                IF result.success
                THEN << Msg("seat-assigned", InRoom(sockets, roomId),
                            sockets[c].userId, seatIndex, 0, "") >>
                ELSE << Msg("seat-request-denied", {c}, NoUser, NoSeat,
                            0, result.reason) >>
    /\ last' = Event("request-seat", c, roomId, NoUser, seatIndex)
    /\ UNCHANGED sockets

\* socket.on('leave-seat'); no effect unless the user holds a seat
LeaveSeat(c, roomId) ==
    /\ sockets[c].connected
    /\ roomId \in DOMAIN rooms
    /\ sockets[c].userId # NoUser
    /\ HasUser(rooms[roomId], sockets[c].userId)
    /\ SeatIndexOf(rooms[roomId], sockets[c].userId) # NoSeat
    /\ LET userId == sockets[c].userId
           room == rooms[roomId]
           si == SeatIndexOf(room, userId)
           us == [i \in 1..Len(room.users) |->
                    IF room.users[i].id = userId
                    THEN [room.users[i] EXCEPT !.seatIndex = NoSeat]
                    ELSE room.users[i]]
       IN  /\ rooms' = [rooms EXCEPT ![roomId] =
                          [room EXCEPT !.seats[si] = NoUser, !.users = us]]
           /\ emitted' = << Msg("seat-left", InRoom(sockets, roomId),
                                userId, NoSeat, 0, "") >>
    /\ last' = Event("leave-seat", c, roomId, NoUser, NoSeat)
    /\ UNCHANGED sockets

MayTakeHostAlways(room, userId) == TRUE

\* !room.host || room.host === socket.userId
MayTakeHost(room, userId) == room.host = NoUser \/ room.host = userId

\* socket.on('request-host'); no effect when another user is host
RequestHost(c, roomId) ==
    /\ sockets[c].connected
    /\ roomId \in DOMAIN rooms
    /\ sockets[c].userId # NoUser
    /\ MayTakeHost(rooms[roomId], sockets[c].userId)
    /\ rooms' = [rooms EXCEPT ![roomId].host = sockets[c].userId]
    /\ emitted' = << Msg("host-changed", InRoom(sockets, roomId),
                         sockets[c].userId, NoSeat, 0, "") >>
    /\ last' = Event("request-host", c, roomId, NoUser, NoSeat)
    /\ UNCHANGED sockets

IsHostAlways(room, userId) == TRUE

\* socket.userId === room.host (undefined is not null)
IsHost(room, userId) == userId # NoUser /\ userId = room.host

\* socket.on('start-screen-share') and socket.on('stop-screen-share');
\* no effect unless the socket's user is the host
SetScreenShare(c, roomId, active) ==
    /\ sockets[c].connected
    /\ roomId \in DOMAIN rooms
    /\ IsHost(rooms[roomId], sockets[c].userId)
    /\ rooms' = [rooms EXCEPT ![roomId].screenSharing = active]
    /\ emitted' = << Msg(IF active THEN "screen-share-started"
                         ELSE "screen-share-stopped",
                         Others(sockets, c, roomId),
                         IF active THEN sockets[c].userId ELSE NoUser,
                         NoSeat, 0, "") >>
    /\ last' = Event(IF active THEN "start-screen-share"
                     ELSE "stop-screen-share", c, roomId, NoUser, NoSeat)
    /\ UNCHANGED sockets

StartScreenShare(c, roomId) == SetScreenShare(c, roomId, TRUE)

StopScreenShare(c, roomId) == SetScreenShare(c, roomId, FALSE)

\* socket.on('position-update'); no effect unless the room exists and the
\* socket has a user id
PositionUpdate(c, roomId, position) ==
    /\ sockets[c].connected
    /\ roomId \in DOMAIN rooms
    /\ sockets[c].userId # NoUser
    /\ rooms' = [rooms EXCEPT ![roomId] =
                    updateUserPosition(@, sockets[c].userId, position)]
    /\ emitted' = << [ev |-> "user-position-update",
                      to |-> Others(sockets, c, roomId),
                      user |-> sockets[c].userId, seat |-> NoSeat,
                      count |-> 0, reason |-> "", position |-> position] >>
    /\ last' = Event("position-update", c, roomId, NoUser, NoSeat)
    /\ UNCHANGED sockets

\* socket.on('avatar-changed'); the payload's userId must be the socket's
AvatarChanged(c, roomId, userId) ==
    /\ sockets[c].connected
    /\ roomId \in DOMAIN rooms
    /\ sockets[c].userId # NoUser
    /\ sockets[c].userId = userId
    /\ emitted' = << Msg("avatar-changed", Others(sockets, c, roomId),
                         userId, NoSeat, 0, "") >>
    /\ last' = Event("avatar-changed", c, roomId, userId, NoSeat)
    /\ UNCHANGED <<rooms, sockets>>

\* socket.on('chat-message'); message, userName and timestamp are relayed
\* as they are and are left out
ChatMessage(c, roomId) ==
    /\ sockets[c].connected
    /\ roomId \in DOMAIN rooms
    /\ sockets[c].userId # NoUser
    /\ emitted' = << Msg("chat-message", Others(sockets, c, roomId),
                         sockets[c].userId, NoSeat, 0, "") >>
    /\ last' = Event("chat-message", c, roomId, NoUser, NoSeat)
    /\ UNCHANGED <<rooms, sockets>>

\* socket.on('voice-status')
VoiceStatus(c, roomId, enabled) ==
    /\ sockets[c].connected
    /\ roomId \in DOMAIN rooms
    /\ sockets[c].userId # NoUser
    /\ emitted' = << [ev |-> "voice-status",
                      to |-> Others(sockets, c, roomId),
                      user |-> sockets[c].userId, seat |-> NoSeat,
                      count |-> 0, reason |-> "", enabled |-> enabled] >>
    /\ last' = Event("voice-status", c, roomId, NoUser, NoSeat)
    /\ UNCHANGED <<rooms, sockets>>

TargetSocketsAnyRoom(ss, roomId, targetUserId) ==
    {d \in AllConns : ss[d].connected /\ ss[d].userId = targetUserId}

\* the sockets of io.sockets.sockets with
\* s.userId === targetUserId && s.currentRoom === roomId
TargetSockets(ss, roomId, targetUserId) ==
    {d \in AllConns : /\ ss[d].connected
                      /\ ss[d].userId = targetUserId
                      /\ ss[d].currentRoom = roomId}

\* socket.on('voice-offer'), socket.on('voice-answer') and
\* socket.on('voice-ice-candidate'): the payload goes to the first matching
\* socket of io.sockets.sockets, which iterates in the order the sockets
\* connected; that order is not kept here, so any matching socket may be it
VoiceSignal(ev, c, roomId, targetUserId) ==
    /\ sockets[c].connected
    /\ roomId \in DOMAIN rooms
    /\ sockets[c].userId # NoUser
    /\ LET found == TargetSockets(sockets, roomId, targetUserId)
       IN  IF found = {}
           THEN emitted' = << >>
           ELSE \E targetSocket \in found :
                   emitted' = << Msg(ev, {targetSocket}, sockets[c].userId,
                                     NoSeat, 0, "") >>
    /\ last' = Event(ev, c, roomId, targetUserId, NoSeat)
    /\ UNCHANGED <<rooms, sockets>>

VoiceOffer(c, roomId, targetUserId) ==
    VoiceSignal("voice-offer", c, roomId, targetUserId)

VoiceAnswer(c, roomId, targetUserId) ==
    VoiceSignal("voice-answer", c, roomId, targetUserId)

VoiceIceCandidate(c, roomId, targetUserId) ==
    VoiceSignal("voice-ice-candidate", c, roomId, targetUserId)

\* socket.on('disconnect'): the socket has left its rooms and is gone from
\* io.sockets when the handler returns
Disconnect(c) ==
    /\ sockets[c].connected
    /\ LET cur == sockets[c].currentRoom
           userId == sockets[c].userId
           ss1 == [sockets EXCEPT ![c] = Gone]
       IN  /\ sockets' = ss1
           /\ IF cur # NoRoom /\ userId # NoUser /\ cur \in DOMAIN rooms
              THEN LET room == removeUser(rooms[cur], userId)
                       to == Others(ss1, c, cur)
                   IN  /\ emitted' =
                            << Msg("user-left", to, userId, NoSeat, 0, ""),
                               Msg("user-count-update", to, NoUser, NoSeat,
                                   Len(room.users), "") >>
                            \o (IF room.host # userId
                                THEN << Msg("host-changed", to, room.host,
                                            NoSeat, 0, "") >>
                                ELSE << >>)
                       \* clean up empty rooms
                       /\ rooms' = IF Len(room.users) = 0
                                   THEN RoomsDelete(rooms, cur)
                                   ELSE [rooms EXCEPT ![cur] = room]
              ELSE /\ rooms' = rooms
                   /\ emitted' = << >>
    /\ last' = Event("disconnect", c, NoRoom, NoUser, NoSeat)

SweepAll ==
    /\ \E r \in DOMAIN rooms : Len(rooms[r].users) = 0
    /\ rooms' = << >>
    /\ emitted' = << >>
    /\ last' = NoEvent("sweep")
    /\ UNCHANGED sockets

\* setInterval: cleanup of empty rooms
Sweep ==
    /\ \E r \in DOMAIN rooms : Len(rooms[r].users) = 0
    /\ rooms' = [r \in {x \in DOMAIN rooms : Len(rooms[x].users) # 0} |->
                    rooms[r]]
    /\ emitted' = << >>
    /\ last' = NoEvent("sweep")
    /\ UNCHANGED sockets

Next ==
    \/ \E c \in Conns : Connect(c)
    \/ \E c \in Conns, r \in RoomIds, u \in UserIds : JoinRoom(c, r, u)
    \/ \E c \in Conns, r \in SeatRoomIds, s \in SeatInputs : RequestSeat(c, r, s)
    \/ \E c \in Conns, r \in RoomIds : LeaveSeat(c, r)
    \/ \E c \in Conns, r \in RoomIds : RequestHost(c, r)
    \/ \E c \in Conns : Disconnect(c)
    \/ Sweep

Spec == Init /\ [][Next]_vars

\* screen sharing: the handlers of Next, with fewer seat indices requested,
\* and the two screen-share handlers
NextShare ==
    \/ \E c \in Conns : Connect(c)
    \/ \E c \in Conns, r \in RoomIds, u \in UserIds : JoinRoom(c, r, u)
    \/ \E c \in Conns, r \in SeatRoomIds, s \in ShareSeatInputs :
          RequestSeat(c, r, s)
    \/ \E c \in Conns, r \in RoomIds : LeaveSeat(c, r)
    \/ \E c \in Conns, r \in RoomIds : RequestHost(c, r)
    \/ \E c \in Conns, r \in RoomIds : StartScreenShare(c, r)
    \/ \E c \in Conns, r \in RoomIds : StopScreenShare(c, r)
    \/ \E c \in Conns : Disconnect(c)
    \/ Sweep

SpecShare == Init /\ [][NextShare]_vars

\* relaying: joins, leaves and the handlers that only notify or forward
NextRelay ==
    \/ \E c \in Conns : Connect(c)
    \/ \E c \in Conns, r \in RoomIds, u \in UserIds : JoinRoom(c, r, u)
    \/ \E c \in Conns, r \in RoomIds, p \in Positions : PositionUpdate(c, r, p)
    \/ \E c \in Conns, r \in RoomIds, u \in UserIds : AvatarChanged(c, r, u)
    \/ \E c \in Conns, r \in RoomIds : ChatMessage(c, r)
    \/ \E c \in Conns, r \in RoomIds, e \in BOOLEAN : VoiceStatus(c, r, e)
    \/ \E c \in Conns, r \in RoomIds, u \in UserIds : VoiceOffer(c, r, u)
    \/ \E c \in Conns, r \in RoomIds, u \in UserIds : VoiceAnswer(c, r, u)
    \/ \E c \in Conns, r \in RoomIds, u \in UserIds :
          VoiceIceCandidate(c, r, u)
    \/ \E c \in Conns : Disconnect(c)
    \/ Sweep

SpecRelay == Init /\ [][NextRelay]_vars

\* host succession: more user ids, no seat requests
NextHosts ==
    \/ \E c \in Conns : Connect(c)
    \/ \E c \in Conns, r \in RoomIds, u \in HostUserIds : JoinRoom(c, r, u)
    \/ \E c \in Conns, r \in RoomIds : RequestHost(c, r)
    \/ \E c \in Conns : Disconnect(c)
    \/ Sweep

SpecHosts == Init /\ [][NextHosts]_vars

\* the cleanup of empty rooms under its timer: joins, leaves and the sweep
NextLive ==
    \/ \E c \in Conns : Connect(c)
    \/ \E c \in Conns, r \in RoomIds, u \in UserIds : JoinRoom(c, r, u)
    \/ \E c \in Conns : Disconnect(c)
    \/ Sweep

TimerStops == TRUE

\* setInterval(..., 300000): the timer fires again and again, so a sweep
\* that has something to remove is not put off forever
TimerRuns == WF_vars(Sweep)

SpecLive == Init /\ [][NextLive]_vars /\ TimerRuns

\* racing seat requests: a third connection, one seat index requested
NextRace ==
    \/ \E c \in RaceConns : Connect(c)
    \/ \E c \in RaceConns, r \in RoomIds, u \in UserIds : JoinRoom(c, r, u)
    \/ \E c \in RaceConns, r \in SeatRoomIds, s \in ShareSeatInputs :
          RequestSeat(c, r, s)
    \/ \E c \in RaceConns : Disconnect(c)
    \/ Sweep

SpecRace == Init /\ [][NextRace]_vars

(* ---------------------------- properties ---------------------------- *)
SeatIdx == 0..(NumSeats - 1)

AllUserIds == UserIds \cup HostUserIds

\* the emits of one event name in the last handler's output
Emits(ev) == {i \in 1..Len(emitted) : emitted[i].ev = ev}

\* the handler removed a user from the room the socket was bound to and did
\* not add one to that room: a disconnect, or a join-room into another room
LeftRoom(ev) ==
    /\ ev.prevRoom # NoRoom
    /\ \/ ev.type = "disconnect" /\ ev.prevUser # NoUser
       \/ ev.type = "join-room" /\ ev.roomId # ev.prevRoom

\* the user id that handler passed to removeUser
LeftUser(ev) == IF ev.type = "disconnect" THEN ev.prevUser ELSE ev.userId

\* C1: in every room no two participants have the same seat index and no
\* participant identifier is at more than one index of the seat array
C1_SeatsExclusive ==
    \A r \in DOMAIN rooms :
        /\ \A i, j \in 1..Len(rooms[r].users) :
              (i # j /\ rooms[r].users[i].seatIndex # NoSeat)
                  => rooms[r].users[i].seatIndex # rooms[r].users[j].seatIndex
        /\ \A i, j \in SeatIdx :
              (i # j /\ rooms[r].seats[i] # NoUser)
                  => rooms[r].seats[i] # rooms[r].seats[j]

\* C2: seats[i] holds P if and only if P is a member of the room and P's
\* seatIndex is i
C2_SeatsInSync ==
    \A r \in DOMAIN rooms : \A i \in SeatIdx : \A u \in AllUserIds :
        (rooms[r].seats[i] = u)
            <=> (HasUser(rooms[r], u) /\ SeatIndexOf(rooms[r], u) = i)

\* C3: the host of a room with participants is one of them, and the host
\* of a room without participants is none
C3_HostIsMember ==
    \A r \in DOMAIN rooms :
        IF Len(rooms[r].users) > 0
        THEN rooms[r].host \in Members(rooms[r])
        ELSE rooms[r].host = NoUser

\* C4: after a join-room of P into R2, P is a member of R2 and of no other
\* room; every participant identifier is a member of at most one room
C4_OneRoomPerUser ==
    /\ last.type = "join-room" =>
          /\ last.roomId \in DOMAIN rooms
          /\ HasUser(rooms[last.roomId], last.userId)
          /\ \A r \in DOMAIN rooms :
                r # last.roomId => ~HasUser(rooms[r], last.userId)
    /\ \A u \in AllUserIds :
          Cardinality({r \in DOMAIN rooms : HasUser(rooms[r], u)}) <= 1

\* C5: a request-seat for an in-range seat that is occupied is answered with
\* seat-request-denied, reason 'Seat already occupied', to the requester,
\* and leaves every room (seat arrays and seat indices) as it was
C5_OccupiedDenied ==
    [][(/\ last'.type = "request-seat"
        /\ last'.seatIndex \in SeatIdx
        /\ rooms[last'.roomId].seats[last'.seatIndex] # NoUser)
       => (/\ rooms' = rooms
           /\ emitted' = << Msg("seat-request-denied", {last'.conn}, NoUser,
                                NoSeat, 0, "Seat already occupied") >>)]_vars

\* a request for a seat held by another member of the room was denied
C5_Witness ==
    /\ last.type = "request-seat"
    /\ last.seatIndex \in SeatIdx
    /\ Emits("seat-request-denied") # {}
    /\ emitted[1].reason = "Seat already occupied"
    /\ rooms[last.roomId].seats[last.seatIndex] # last.prevUser
    /\ HasUser(rooms[last.roomId], rooms[last.roomId].seats[last.seatIndex])
    /\ HasUser(rooms[last.roomId], last.prevUser)

\* C6: when a member leaves a room (disconnect, or join-room into another
\* room): if it was the host and members remain, the host becomes the
\* remaining member first in insertion order; if it was the last member the
\* host becomes none (or the room is deleted); if it was not the host the
\* host stays
C6_HostSuccession ==
    [][\A r \in DOMAIN rooms :
          (/\ LeftRoom(last')
           /\ last'.prevRoom = r
           /\ HasUser(rooms[r], LeftUser(last')))
          => LET rest == SelectSeq(UserKeys(rooms[r]),
                                   LAMBDA k : k # LeftUser(last'))
             IN  IF rest = << >>
                 THEN r \in DOMAIN rooms' => rooms'[r].host = NoUser
                 ELSE /\ r \in DOMAIN rooms'
                      /\ UserKeys(rooms'[r]) = rest
                      /\ rooms'[r].host = IF rooms[r].host = LeftUser(last')
                                          THEN rest[1]
                                          ELSE rooms[r].host]_vars

\* the host disconnected from a room of three and the member who joined
\* second is the host now, ahead of the one who joined third
C6_Witness ==
    /\ last.type = "disconnect"
    /\ last.prevHost = last.prevUser
    /\ last.prevUser # NoUser
    /\ last.prevRoom \in DOMAIN rooms
    /\ Len(rooms[last.prevRoom].users) = 2
    /\ ~HasUser(rooms[last.prevRoom], last.prevUser)
    /\ rooms[last.prevRoom].host = rooms[last.prevRoom].users[1].id

\* C7: after the disconnect of a connection bound to (P, R), P is not a
\* member of R and no seat of R holds P
C7_DisconnectClears ==
    (/\ last.type = "disconnect"
     /\ last.prevUser # NoUser
     /\ last.prevRoom \in DOMAIN rooms)
    => /\ ~HasUser(rooms[last.prevRoom], last.prevUser)
       /\ \A i \in SeatIdx : rooms[last.prevRoom].seats[i] # last.prevUser

\* C8: after a connection bound to (P, R1) has processed a join-room for
\* another room R2, P is not a member of R1, unless another live connection
\* is bound to (P, R1)
C8_NoMemberLeftBehind ==
    (/\ last.type = "join-room"
     /\ last.prevRoom # NoRoom
     /\ last.prevUser # NoUser
     /\ last.prevRoom # last.roomId
     /\ last.prevRoom \in DOMAIN rooms
     /\ ~\E d \in Conns \ {last.conn} :
            /\ sockets[d].connected
            /\ sockets[d].currentRoom = last.prevRoom
            /\ sockets[d].userId = last.prevUser)
    => ~HasUser(rooms[last.prevRoom], last.prevUser)

\* C9: when a handler (disconnect, or join-room into another room) removes
\* the last participant of a room, the room is not in the registry afterwards
C9_EmptyRoomDeleted ==
    [][\A r \in DOMAIN rooms :
          (/\ LeftRoom(last')
           /\ last'.prevRoom = r
           /\ Members(rooms[r]) = {LeftUser(last')})
          => r \notin DOMAIN rooms']_vars

\* C10: a disconnect emits host-changed only if the room's host after it
\* differs from the host before it
C10_HostChangedOnlyOnChange ==
    last.type = "disconnect"
        => \A i \in Emits("host-changed") : emitted[i].user # last.prevHost

\* C11: when the departure of the host (disconnect, or join-room into
\* another room) makes a remaining member the host, a host-changed carrying
\* the new host goes to the connections still subscribed to the room
C11_HostChangeAnnounced ==
    (/\ LeftRoom(last)
     /\ last.prevHost # NoUser
     /\ last.prevHost = LeftUser(last)
     /\ last.prevRoom \in DOMAIN rooms
     /\ rooms[last.prevRoom].host \notin {NoUser, last.prevHost})
    => \E i \in Emits("host-changed") :
          /\ emitted[i].user = rooms[last.prevRoom].host
          /\ emitted[i].to = InRoom(sockets, last.prevRoom)

\* C12: a request-host makes the requester host only when the room has no
\* host; while another user is host the handler has no effect at all, so a
\* request-host never replaces a present host
C12_HostNotTakenAway ==
    /\ [](\A c \in Conns : \A r \in DOMAIN rooms :
            (/\ sockets[c].connected
             /\ sockets[c].userId # NoUser
             /\ rooms[r].host \notin {NoUser, sockets[c].userId})
            => ~ENABLED RequestHost(c, r))
    /\ [][last'.type = "request-host"
          => /\ rooms[last'.roomId].host \in {NoUser, last'.prevUser}
             /\ rooms'[last'.roomId].host = last'.prevUser
             /\ rooms[last'.roomId].host # NoUser => rooms' = rooms]_vars

\* a requester took the host of a room that had none, and the request of
\* another connection's user for that room is now without effect
C12_Witness ==
    /\ last.type = "request-host"
    /\ rooms[last.roomId].host = last.prevUser
    /\ Len(rooms[last.roomId].users) = 0
    /\ \E d \in Conns :
          /\ sockets[d].connected
          /\ sockets[d].userId \notin {NoUser, last.prevUser}
          /\ ~ENABLED RequestHost(d, last.roomId)

\* C13: a request-host emits host-changed only when it changes the room's
\* host; from the user who is host already it emits none
C13_HostChangedOnlyOnChange ==
    [][(/\ last'.type = "request-host"
        /\ \E i \in 1..Len(emitted') : emitted'[i].ev = "host-changed")
       => rooms'[last'.roomId].host # rooms[last'.roomId].host]_vars

\* C14: a start-screen-share or stop-screen-share from a connection whose
\* user is not the host of the room named has no effect (no flag change, no
\* emit); from the host it sets the room's flag to true (start) or false
\* (stop) and changes nothing else
C14_ScreenShareHostOnly ==
    /\ [](\A c \in Conns : \A r \in DOMAIN rooms :
            (/\ sockets[c].connected
             /\ (sockets[c].userId = NoUser
                 \/ sockets[c].userId # rooms[r].host))
            => (~ENABLED StartScreenShare(c, r)
                /\ ~ENABLED StopScreenShare(c, r)))
    /\ [][last'.type \in {"start-screen-share", "stop-screen-share"}
          => /\ rooms[last'.roomId].host = last'.prevUser
             /\ rooms' = [rooms EXCEPT ![last'.roomId].screenSharing =
                             (last'.type = "start-screen-share")]]_vars

\* the host of a room with another member started a screen share, and a
\* start from the other member's connection is without effect
C14_Witness ==
    /\ last.type = "start-screen-share"
    /\ rooms[last.roomId].host = last.prevUser
    /\ Len(rooms[last.roomId].users) = 2
    /\ rooms[last.roomId].screenSharing
    /\ Emits("screen-share-started") # {}
    /\ \E d \in Conns :
          /\ sockets[d].connected
          /\ sockets[d].userId \notin {NoUser, last.prevUser}
          /\ ~ENABLED StartScreenShare(d, last.roomId)

\* C15: a join-room for a room id that is not in the registry creates the
\* room with the joiner as its only member and host, every seat empty and
\* the screen-sharing flag false; a join-room into a room whose host is
\* another member does not make the joiner host
C15_FirstJoinerIsHost ==
    [][last'.type = "join-room"
       => LET r == last'.roomId
              u == last'.userId
          IN  /\ r \in DOMAIN rooms'
              /\ r \notin DOMAIN rooms
                 => /\ UserKeys(rooms'[r]) = << u >>
                    /\ SeatIndexOf(rooms'[r], u) = NoSeat
                    /\ rooms'[r].host = u
                    /\ \A i \in SeatIdx : rooms'[r].seats[i] = NoUser
                    /\ ~rooms'[r].screenSharing
              /\ (/\ r \in DOMAIN rooms
                  /\ rooms[r].host # u
                  /\ HasUser(rooms[r], rooms[r].host))
                 => /\ rooms'[r].host = rooms[r].host
                    /\ HasUser(rooms'[r], u)]_vars

\* a second user joined a room from another connection and the first
\* joiner is still its host
C15_Witness ==
    /\ last.type = "join-room"
    /\ last.prevRoom = NoRoom
    /\ Len(rooms[last.roomId].users) = 2
    /\ rooms[last.roomId].users[2].id = last.userId
    /\ rooms[last.roomId].host = rooms[last.roomId].users[1].id
    /\ \E d \in Conns \ {last.conn} :
          /\ sockets[d].currentRoom = last.roomId
          /\ sockets[d].userId = rooms[last.roomId].host

\* C16: a join-room of a user id that is a member of the room already
\* (from the same connection or from another one) leaves the room's users
\* and their insertion order unchanged, and its host unchanged
C16_RejoinKeepsUsersAndHost ==
    [][(/\ last'.type = "join-room"
        /\ last'.roomId \in DOMAIN rooms
        /\ HasUser(rooms[last'.roomId], last'.userId))
       => /\ UserKeys(rooms'[last'.roomId]) = UserKeys(rooms[last'.roomId])
          /\ rooms'[last'.roomId].host = rooms[last'.roomId].host]_vars

\* C17: the room-joined payload sent to the joiner gives the room as it is
\* after the join: every member, the joiner among them, the host, the
\* screen-sharing flag and the occupant of every occupied seat; isHost is
\* true exactly when the joiner is the host
C17_RoomJoinedSnapshot ==
    last.type = "join-room"
    => \E i \in Emits("room-joined") :
          LET m == emitted[i]
              room == rooms[last.roomId]
          IN  /\ m.to = {last.conn}
              /\ {m.snap.users[k].id : k \in 1..Len(m.snap.users)}
                    = Members(room)
              /\ last.userId \in Members(room)
              /\ m.snap.host = room.host
              /\ m.snap.screenSharing = room.screenSharing
              /\ m.isHost = (room.host = last.userId)
              /\ \A s \in SeatIdx :
                    room.seats[s] # NoUser
                    => \E k \in 1..Len(m.snap.users) :
                          /\ m.snap.users[k].id = room.seats[s]
                          /\ m.snap.users[k].seatIndex = s

\* C18: a notification caused by an event of a connection is delivered
\* only to connections subscribed to the room that connection is bound to,
\* whatever room the event's payload names
C18_NotifyOwnRoomOnly ==
    last.type \in {"position-update", "chat-message", "voice-status",
                   "avatar-changed", "start-screen-share",
                   "stop-screen-share", "request-host", "request-seat"}
    => \A i \in 1..Len(emitted) :
          emitted[i].ev \in {"user-position-update", "chat-message",
                             "voice-status", "avatar-changed",
                             "screen-share-started", "screen-share-stopped",
                             "host-changed", "seat-assigned"}
          => emitted[i].to \subseteq InRoom(sockets, last.prevRoom)

\* C19: a voice-offer, voice-answer or voice-ice-candidate is delivered only
\* to a connection bound to the room its sender is bound to
C19_SignalSameRoomOnly ==
    last.type \in {"voice-offer", "voice-answer", "voice-ice-candidate"}
    => \A i \in 1..Len(emitted) : \A d \in emitted[i].to :
          sockets[d].currentRoom = last.prevRoom


\* C20: a signaling event naming target participant T and room R is delivered
\* to at most one connection, that connection is bound to (T, R), and the
\* message carries the event's name and the sender's participant id; when no
\* live connection is bound to (T, R) nothing is delivered, and in either case
\* the rooms and the connections' bindings are left as they were.
C20_SignalToBoundTarget ==
    [][ last'.type \in {"voice-offer", "voice-answer", "voice-ice-candidate"}
        => LET bound == {d \in Conns : /\ sockets[d].connected
                                       /\ sockets[d].userId = last'.userId
                                       /\ sockets[d].currentRoom = last'.roomId}
           IN  /\ rooms' = rooms
               /\ sockets' = sockets
               /\ Len(emitted') <= 1
               /\ \A i \in 1..Len(emitted') :
                     /\ Cardinality(emitted'[i].to) = 1
                     /\ emitted'[i].to \subseteq bound
                     /\ emitted'[i].ev = last'.type
                     /\ emitted'[i].user = sockets[last'.conn].userId
               /\ (bound = {} => emitted' = << >>) ]_vars

\* a voice-offer has just been forwarded to another connection, which is
\* bound to the named participant and room
C20_Witness ==
    /\ last.type = "voice-offer"
    /\ Len(emitted) = 1
    /\ \E d \in Conns \ {last.conn} :
          /\ emitted[1].to = {d}
          /\ sockets[d].userId = last.userId
          /\ sockets[d].currentRoom = last.roomId
          /\ emitted[1].user = last.prevUser

\* C21: a request-seat that succeeds emits one seat-assigned, naming the
\* requester and the index, to every connection subscribed to the room, the
\* requester's among them; one that fails emits one seat-request-denied to
\* the requesting connection and nothing to any other connection
C21_SeatReplies ==
    [][last'.type = "request-seat"
       => LET r == last'.roomId
              ok == assignSeat(rooms[r], last'.prevUser, last'.seatIndex).success
          IN  /\ Len(emitted') = 1
              /\ IF ok
                 THEN /\ emitted'[1].ev = "seat-assigned"
                      /\ emitted'[1].user = last'.prevUser
                      /\ emitted'[1].seat = last'.seatIndex
                      /\ emitted'[1].to = InRoom(sockets, r)
                      /\ last'.conn \in emitted'[1].to
                 ELSE /\ emitted'[1].ev = "seat-request-denied"
                      /\ emitted'[1].to = {last'.conn}]_vars

\* C22: when a member holding seat i gets another seat j by request-seat, or
\* gives up seat i by leave-seat, seat i is empty afterwards and a request
\* for it by any other member would succeed; after a move the member holds
\* seat j and no other seat
C22_OldSeatReleased ==
    [][\A i \in SeatIdx :
          LET r == last'.roomId
              u == last'.prevUser
              moved == /\ last'.type = "request-seat"
                       /\ last'.seatIndex # i
                       /\ assignSeat(rooms[r], u, last'.seatIndex).success
              left == last'.type = "leave-seat"
          IN  (/\ moved \/ left
               /\ HasUser(rooms[r], u)
               /\ rooms[r].seats[i] = u)
              => /\ rooms'[r].seats[i] = NoUser
                 /\ \A q \in Members(rooms'[r]) \ {u} :
                       assignSeat(rooms'[r], q, i).success
                 /\ moved => /\ SeatIndexOf(rooms'[r], u) = last'.seatIndex
                             /\ \A k \in SeatIdx :
                                   rooms'[r].seats[k] = u
                                       <=> k = last'.seatIndex]_vars

\* C23: a request-seat is denied as 'Seat already occupied' only when the
\* seat is held by a participant other than the requester; a member's
\* request for the seat it holds is not denied as occupied, and the member
\* holds that seat afterwards
C23_OccupiedOnlyByOther ==
    [][(/\ last'.type = "request-seat"
        /\ last'.seatIndex \in SeatIdx)
       => LET r == last'.roomId
              u == last'.prevUser
              occupied == \E i \in 1..Len(emitted') :
                             /\ emitted'[i].ev = "seat-request-denied"
                             /\ emitted'[i].reason = "Seat already occupied"
          IN  /\ occupied => rooms[r].seats[last'.seatIndex] \notin {NoUser, u}
              /\ (/\ HasUser(rooms[r], u)
                  /\ rooms[r].seats[last'.seatIndex] = u)
                 => /\ ~occupied
                    /\ rooms'[r].seats[last'.seatIndex] = u]_vars

\* C24: the failures of a seat assignment are decided in the order invalid
\* index, occupied seat, unknown participant: an index out of range is
\* denied as 'Invalid seat index' whatever else holds, an occupied seat in
\* range as 'Seat already occupied' even to a requester who is not a member,
\* a free seat in range requested by a non-member as 'User not found'; and
\* every failure leaves every room as it was
C24_FailureOrder ==
    [][last'.type = "request-seat"
       => LET r == last'.roomId
              u == last'.prevUser
              s == last'.seatIndex
              denied(reason) ==
                  /\ emitted' = << Msg("seat-request-denied", {last'.conn},
                                       NoUser, NoSeat, 0, reason) >>
                  /\ rooms' = rooms
          IN  /\ s \notin SeatIdx => denied("Invalid seat index")
              /\ (s \in SeatIdx /\ rooms[r].seats[s] # NoUser)
                    => denied("Seat already occupied")
              /\ (/\ s \in SeatIdx
                  /\ rooms[r].seats[s] = NoUser
                  /\ ~HasUser(rooms[r], u))
                    => denied("User not found")
              /\ (\E i \in 1..Len(emitted') :
                     emitted'[i].ev = "seat-request-denied")
                    => rooms' = rooms]_vars

\* a requester who is not a member of the room asked for a seat that a
\* member holds and was told that the seat is occupied
C24_Witness ==
    /\ last.type = "request-seat"
    /\ last.seatIndex \in SeatIdx
    /\ ~HasUser(rooms[last.roomId], last.prevUser)
    /\ HasUser(rooms[last.roomId], rooms[last.roomId].seats[last.seatIndex])
    /\ Len(emitted) = 1
    /\ emitted[1].ev = "seat-request-denied"
    /\ emitted[1].reason = "Seat already occupied"

\* C25: leaving is idempotent: when a connection bound to (P, R) leaves R as
\* P (disconnect, or join-room into another room) and P is no longer a
\* member of R, the room R is left as it was and no user-left is delivered
\* to the connections that remain in R
C25_LeaveIdempotent ==
    [][(/\ LeftRoom(last')
        /\ last'.prevUser # NoUser
        /\ LeftUser(last') = last'.prevUser
        /\ last'.prevRoom \in DOMAIN rooms
        /\ ~HasUser(rooms[last'.prevRoom], last'.prevUser))
       => /\ last'.prevRoom \in DOMAIN rooms'
             => rooms'[last'.prevRoom] = rooms[last'.prevRoom]
          /\ \A i \in 1..Len(emitted') :
                (emitted'[i].ev = "user-left"
                 /\ emitted'[i].user = last'.prevUser)
                => emitted'[i].to = {}]_vars

\* C26: a sweep removes from the registry every room that has no
\* participants and no other room, and leaves every room it keeps, and
\* every connection, as it was
C26_SweepRemovesEmptyOnly ==
    [][last'.type = "sweep"
       => /\ DOMAIN rooms' = {r \in DOMAIN rooms : Len(rooms[r].users) > 0}
          /\ \A r \in DOMAIN rooms' : rooms'[r] = rooms[r]
          /\ sockets' = sockets
          /\ emitted' = << >>]_vars

\* a sweep has removed a room and kept another, which has a participant
C26_Witness ==
    /\ last.type = "sweep"
    /\ \E r \in DOMAIN rooms : Len(rooms[r].users) > 0
    /\ \E r \in RoomIds : r \notin DOMAIN rooms

\* C27: with the cleanup timer running, a room that is in the registry with
\* no participants is eventually removed from the registry or joined by a
\* participant: no room stays registered and empty forever
C27_EmptyRoomGoesAway ==
    \A r \in RoomIds :
        (r \in DOMAIN rooms /\ Len(rooms[r].users) = 0)
            ~> (r \notin DOMAIN rooms \/ Len(rooms[r].users) > 0)

\* the sweep has removed a room that a join-room into another room had left
\* empty, while the connection that left it is in the other room
C27_Witness ==
    /\ last.type = "sweep"
    /\ \E c \in Conns :
          /\ sockets[c].connected
          /\ sockets[c].currentRoom \in DOMAIN rooms
          /\ HasUser(rooms[sockets[c].currentRoom], sockets[c].userId)
    /\ \E r \in RoomIds : r \notin DOMAIN rooms
    /\ \A r \in DOMAIN rooms : Len(rooms[r].users) > 0

\* C28: when two connections bound to the same room send request-seat for
\* the same seat index, free when the first request is handled, the handler
\* runs for one and then for the other: exactly one of them gets
\* seat-assigned and holds the seat, and the other gets seat-request-denied
\* and the room is as the first request left it
C28_OneWinsTheSeat ==
    [][(/\ last.type = "request-seat"
        /\ last'.type = "request-seat"
        /\ last'.conn # last.conn
        /\ last'.roomId = last.roomId
        /\ last'.seatIndex = last.seatIndex
        /\ last.seatIndex \in SeatIdx
        /\ last.prevRoom = last.roomId
        /\ last'.prevRoom = last'.roomId
        /\ emitted[1].reason # "Seat already occupied")
       => LET r == last.roomId
              s == last.seatIndex
              first == emitted[1].ev = "seat-assigned"
              second == emitted'[1].ev = "seat-assigned"
          IN  /\ first # second
              /\ rooms'[r].seats[s] = IF first THEN last.prevUser
                                      ELSE last'.prevUser
              /\ first => /\ emitted'[1].ev = "seat-request-denied"
                          /\ emitted'[1].to = {last'.conn}
                          /\ rooms' = rooms]_vars

\* C29: every live connection that is bound to (P, R) has P as a member of
\* the room R of the registry; so the disconnect of one connection does not
\* remove a participant that another live connection is bound to
C29_BoundUserIsMember ==
    \A c \in Conns :
        (/\ sockets[c].connected
         /\ sockets[c].currentRoom # NoRoom
         /\ sockets[c].userId # NoUser)
        => /\ sockets[c].currentRoom \in DOMAIN rooms
           /\ HasUser(rooms[sockets[c].currentRoom], sockets[c].userId)

\* C30: in every room whose screen-sharing flag is true the host is a
\* participant of the room, the one whose start-screen-share set the flag:
\* a start sets the flag for the host, and the flag does not stay true over
\* a step that changes the host or empties the room
C30_ShareHasItsHost ==
    /\ [](\A r \in DOMAIN rooms :
            rooms[r].screenSharing
                => /\ rooms[r].host # NoUser
                   /\ HasUser(rooms[r], rooms[r].host))
    /\ [][\A r \in DOMAIN rooms' :
            rooms'[r].screenSharing
                => IF r \in DOMAIN rooms /\ rooms[r].screenSharing
                   THEN rooms'[r].host = rooms[r].host
                   ELSE /\ last'.type = "start-screen-share"
                        /\ rooms'[r].host = last'.prevUser]_vars

=============================================================================
